---- MODULE Spec2Model ----
(***************************************************************************)
(* Model of the two receipt-extraction scripts of backend-contapro:        *)
(*   src/python/extract_expense.py  (OCR + regex/heuristic detectors)      *)
(*   src/python/llm_extract.py      (remote structured-completion call)    *)
(*                                                                         *)
(* A Python str is a sequence of one-character strings.  A float that      *)
(* holds a money amount is an integer number of hundredths: every token    *)
(* the code parses has at most two decimals, and for such values below     *)
(* 2^53/100 the "%.2f" rendering of the double is the exact decimal.       *)
(* Characters are ASCII; whitespace is space, tab and line feed.           *)
(***************************************************************************)
EXTENDS Integers, Sequences, FiniteSets, TLC

VARIABLES
    script,     \* what runs: "extract_expense", "llm_extract", or "normalize_amount" alone
    argv,       \* sys.argv[1:], a sequence of paths
    pc,         \* position in the running script
    lines,      \* extract_expense.main: the local `lines`
    stdout,     \* documents printed so far
    exit_code,  \* process exit status, -1 while running
    raised,     \* the exception that escaped the script, "none" if none
    ocr,        \* extract_expense: what the OCR engine did, [outcome, result]
    fault,      \* llm_extract: the failure this run met, "none" if none
    txt,        \* normalize_amount: its argument
    ret         \* normalize_amount: its return value

vars == <<script, argv, pc, lines, stdout, exit_code, raised, ocr, fault, txt, ret>>

----------------------------------------------------------------------------
(* Characters and str methods *)

Digits == <<"0","1","2","3","4","5","6","7","8","9">>
Lowers == <<"a","b","c","d","e","f","g","h","i","j","k","l","m","n","o","p","q","r","s","t","u","v","w","x","y","z">>
Uppers == <<"A","B","C","D","E","F","G","H","I","J","K","L","M","N","O","P","Q","R","S","T","U","V","W","X","Y","Z">>

\* regex \d
IsDigit(c) == \E i \in 1..Len(Digits) : Digits[i] = c

DigitVal(c) == (CHOOSE i \in 1..Len(Digits) : Digits[i] = c) - 1

\* regex [A-Z]
IsUpper(c) == \E i \in 1..Len(Uppers) : Uppers[i] = c

\* regex \s, and the characters str.strip() removes
IsSpace(c) == c \in {" ", "\t", "\n"}

UpperChar(c) ==
    IF \E i \in 1..Len(Lowers) : Lowers[i] = c
    THEN Uppers[CHOOSE i \in 1..Len(Lowers) : Lowers[i] = c]
    ELSE c

LowerChar(c) ==
    IF \E i \in 1..Len(Uppers) : Uppers[i] = c
    THEN Lowers[CHOOSE i \in 1..Len(Uppers) : Uppers[i] = c]
    ELSE c

\* str.upper()
upper(s) == [i \in 1..Len(s) |-> UpperChar(s[i])]

\* str.lower()
lower(s) == [i \in 1..Len(s) |-> LowerChar(s[i])]

\* s[i:i+len(w)] == w, with i counted from 1
MatchAt(s, i, w) ==
    /\ i >= 1
    /\ i + Len(w) - 1 <= Len(s)
    /\ \A k \in 1..Len(w) : s[i + k - 1] = w[k]

\* w in s
Contains(s, w) == \E i \in 1..(Len(s) + 1) : MatchAt(s, i, w)

RECURSIVE ReplaceFrom(_, _, _, _)
ReplaceFrom(s, i, w, r) ==
    IF i > Len(s) THEN << >>
    ELSE IF MatchAt(s, i, w) THEN r \o ReplaceFrom(s, i + Len(w), w, r)
    ELSE <<s[i]>> \o ReplaceFrom(s, i + 1, w, r)

\* s.replace(w, r) for a non-empty w: leftmost non-overlapping occurrences
replace(s, w, r) == ReplaceFrom(s, 1, w, r)

RECURSIVE LStrip(_)
LStrip(s) == IF s # << >> /\ IsSpace(Head(s)) THEN LStrip(Tail(s)) ELSE s

RECURSIVE RStrip(_)
RStrip(s) ==
    IF s # << >> /\ IsSpace(s[Len(s)]) THEN RStrip(SubSeq(s, 1, Len(s) - 1)) ELSE s

\* str.strip()
strip(s) == RStrip(LStrip(s))

RECURSIVE join(_, _)
\* sep.join(ls)
join(sep, ls) ==
    IF ls = << >> THEN << >>
    ELSE IF Len(ls) = 1 THEN ls[1]
    ELSE ls[1] \o sep \o join(sep, Tail(ls))

\* the index just past the run of digits that starts at i (i itself if s[i] is no digit)
RECURSIVE DigitRunEnd(_, _)
DigitRunEnd(s, i) ==
    IF i <= Len(s) /\ IsDigit(s[i]) THEN DigitRunEnd(s, i + 1) ELSE i

\* s[i], s[i+1], ..., s[i+n-1] exist and are digits
DigitsAt(s, i, n) == /\ i >= 1
                     /\ i + n - 1 <= Len(s)
                     /\ \A k \in 0..(n - 1) : IsDigit(s[i + k])

----------------------------------------------------------------------------
(* Amounts: float(...) and f"{x:.2f}" *)

RECURSIVE IntOf(_)
\* the value of a string of decimal digits, 0 for the empty string
IntOf(ds) ==
    IF ds = << >> THEN 0
    ELSE 10 * IntOf(SubSeq(ds, 1, Len(ds) - 1)) + DigitVal(ds[Len(ds)])

RECURSIVE StrOf(_)
\* the decimal digits of a natural number, without leading zeros
StrOf(n) ==
    IF n < 10 THEN <<Digits[n + 1]>>
    ELSE StrOf(n \div 10) \o <<Digits[(n % 10) + 1]>>

\* float(m) for m of the form digits, digits., digits.d or digits.dd, in hundredths
float(m) ==
    LET p   == DigitRunEnd(m, 1)
        whl == IntOf(SubSeq(m, 1, p - 1))
        frc == SubSeq(m, p + 1, Len(m))
    IN  100 * whl + (IF Len(frc) = 0 THEN 0
                     ELSE IF Len(frc) = 1 THEN 10 * DigitVal(frc[1])
                     ELSE 10 * DigitVal(frc[1]) + DigitVal(frc[2]))

\* f"{amt:.2f}" of a non-negative amount in hundredths
Format2f(amt) ==
    StrOf(amt \div 100) \o <<".">> \o <<Digits[((amt % 100) \div 10) + 1], Digits[(amt % 10) + 1]>>

RECURSIVE FindallAmountFrom(_, _)
\* re.findall(r"\d+\.?\d{0,2}", s) from position i: every part of the pattern after
\* \d+ is optional, so the greedy first attempt at a digit always succeeds
FindallAmountFrom(s, i) ==
    IF i > Len(s) THEN << >>
    ELSE IF ~IsDigit(s[i]) THEN FindallAmountFrom(s, i + 1)
    ELSE LET j == DigitRunEnd(s, i)
             k == IF j <= Len(s) /\ s[j] = "." THEN j + 1 ELSE j
             e == IF DigitsAt(s, k, 2) THEN k + 2
                  ELSE IF DigitsAt(s, k, 1) THEN k + 1
                  ELSE k
         IN  <<SubSeq(s, i, e - 1)>> \o FindallAmountFrom(s, e)

\* normalize_amount with the comma dropped as a thousands separator instead of read as '.'
normalize_amount_dropcomma(t0) ==
    LET t1 == replace(t0, <<" ">>, << >>)
        t2 == replace(replace(replace(t1, <<"S","/">>, << >>), <<"U","S","$">>, << >>), <<"$">>, << >>)
        t3 == replace(t2, <<",">>, << >>)
        m  == FindallAmountFrom(t3, 1)
    IN  IF m = << >> THEN << >> ELSE Format2f(float(m[Len(m)]))

normalize_amount(t0) ==
    LET t1 == replace(t0, <<" ">>, << >>)
        t2 == replace(replace(replace(t1, <<"S","/">>, << >>), <<"U","S","$">>, << >>), <<"$">>, << >>)
        t3 == replace(t2, <<",">>, <<".">>)
        m  == FindallAmountFrom(t3, 1)
    IN  IF m = << >> THEN << >> ELSE Format2f(float(m[Len(m)]))

----------------------------------------------------------------------------
(* extract_expense.py: the line normalizer and the field detectors *)

RECURSIVE CollapseSpaces(_)
\* re.sub(r"\s+", " ", t)
CollapseSpaces(t) ==
    IF t = << >> THEN << >>
    ELSE IF IsSpace(Head(t)) THEN <<" ">> \o CollapseSpaces(LStrip(t))
    ELSE <<Head(t)>> \o CollapseSpaces(Tail(t))

RECURSIVE clean_text_keepblank(_)
\* clean_text without the `if not t: continue`
clean_text_keepblank(ls) ==
    IF ls = << >> THEN << >>
    ELSE <<CollapseSpaces(strip(Head(ls)))>> \o clean_text_keepblank(Tail(ls))

RECURSIVE clean_text(_)
clean_text(ls) ==
    IF ls = << >> THEN << >>
    ELSE LET t == strip(Head(ls))
         IN  IF t = << >> THEN clean_text(Tail(ls))
             ELSE <<CollapseSpaces(t)>> \o clean_text(Tail(ls))

detect_tipo(ls) ==
    LET joined == lower(join(<<" ">>, ls))
    IN  IF Contains(joined, <<"f","a","c","t","u","r","a">>) THEN <<"f","a","c","t","u","r","a">>
        ELSE IF Contains(joined, <<"b","o","l","e","t","a">>) \/ Contains(joined, <<"t","i","c","k","e","t">>) THEN <<"b","o","l","e","t","a">>
        ELSE << >>

\* [-/]
IsDateSep(c) == c \in {"-", "/"}

\* 0[1-9]|1[0-2] at s[i], s[i+1]
MonthAt(s, i) ==
    /\ i + 1 <= Len(s)
    /\ \/ s[i] = "0" /\ IsDigit(s[i + 1]) /\ s[i + 1] # "0"
       \/ s[i] = "1" /\ s[i + 1] \in {"0", "1", "2"}

\* 0[1-9]|[12]\d|3[01] at s[i], s[i+1]
DayAt(s, i) ==
    /\ i + 1 <= Len(s)
    /\ \/ s[i] = "0" /\ IsDigit(s[i + 1]) /\ s[i + 1] # "0"
       \/ s[i] \in {"1", "2"} /\ IsDigit(s[i + 1])
       \/ s[i] = "3" /\ s[i + 1] \in {"0", "1"}

\* 20\d{2} at s[i..i+3]
YearAt(s, i) == MatchAt(s, i, <<"2","0">>) /\ DigitsAt(s, i + 2, 2)

\* (20\d{2})[-/](0[1-9]|1[0-2])[-/](0[1-9]|[12]\d|3[01]) matches at i
PatternYMDAt(s, i) ==
    /\ i + 9 <= Len(s)
    /\ YearAt(s, i)
    /\ IsDateSep(s[i + 4])
    /\ MonthAt(s, i + 5)
    /\ IsDateSep(s[i + 7])
    /\ DayAt(s, i + 8)

\* (0[1-9]|[12]\d|3[01])[-/](0[1-9]|1[0-2])[-/](20\d{2}) matches at i
PatternDMYAt(s, i) ==
    /\ i + 9 <= Len(s)
    /\ DayAt(s, i)
    /\ IsDateSep(s[i + 2])
    /\ MonthAt(s, i + 3)
    /\ IsDateSep(s[i + 5])
    /\ YearAt(s, i + 6)

\* m.groups() of re.search(patterns[p], ln), << >> when there is no match
DateGroups(p, ln) ==
    IF p = 1
    THEN IF \E i \in 1..Len(ln) : PatternYMDAt(ln, i)
         THEN LET i == CHOOSE i \in 1..Len(ln) :
                           PatternYMDAt(ln, i) /\ \A k \in 1..(i - 1) : ~PatternYMDAt(ln, k)
              IN  <<SubSeq(ln, i, i + 3), SubSeq(ln, i + 5, i + 6), SubSeq(ln, i + 8, i + 9)>>
         ELSE << >>
    ELSE IF \E i \in 1..Len(ln) : PatternDMYAt(ln, i)
         THEN LET i == CHOOSE i \in 1..Len(ln) :
                           PatternDMYAt(ln, i) /\ \A k \in 1..(i - 1) : ~PatternDMYAt(ln, k)
              IN  <<SubSeq(ln, i, i + 1), SubSeq(ln, i + 3, i + 4), SubSeq(ln, i + 6, i + 9)>>
         ELSE << >>

\* the return statement of detect_fecha for the groups g of a match
DateOfGroups(g) ==
    IF Len(g) = 3 /\ Len(g[1]) = 4
    THEN g[1] \o <<"-">> \o g[2] \o <<"-">> \o g[3]
    ELSE g[3] \o <<"-">> \o g[2] \o <<"-">> \o g[1]

RECURSIVE detect_fecha_dmyfirst(_)
\* detect_fecha with the two patterns tried in the other order
detect_fecha_dmyfirst(ls) ==
    IF ls = << >> THEN << >>
    ELSE IF DateGroups(2, Head(ls)) # << >> THEN DateOfGroups(DateGroups(2, Head(ls)))
    ELSE IF DateGroups(1, Head(ls)) # << >> THEN DateOfGroups(DateGroups(1, Head(ls)))
    ELSE detect_fecha_dmyfirst(Tail(ls))

RECURSIVE detect_fecha(_)
detect_fecha(ls) ==
    IF ls = << >> THEN << >>
    ELSE IF DateGroups(1, Head(ls)) # << >> THEN DateOfGroups(DateGroups(1, Head(ls)))
    ELSE IF DateGroups(2, Head(ls)) # << >> THEN DateOfGroups(DateGroups(2, Head(ls)))
    ELSE detect_fecha(Tail(ls))

detect_moneda(ls) ==
    LET joined == upper(join(<<" ">>, ls))
    IN  IF Contains(joined, <<"P","E","N">>) \/ Contains(joined, <<"S","/">>) THEN <<"P","E","N">>
        ELSE IF Contains(joined, <<"U","S","D">>) \/ Contains(joined, <<"U","S","$">>) \/ Contains(joined, <<"$">>)
             THEN <<"U","S","D">>
        ELSE << >>

RECURSIVE FindallMoneyFrom(_, _)
\* re.findall(r"\d+[\.,]\d{2}", s) from position i.  \d+ takes the whole digit run;
\* giving digits back cannot help, the next character would be a digit and not [.,]
FindallMoneyFrom(s, i) ==
    IF i > Len(s) THEN << >>
    ELSE IF ~IsDigit(s[i]) THEN FindallMoneyFrom(s, i + 1)
    ELSE LET j == DigitRunEnd(s, i)
         IN  IF j <= Len(s) /\ s[j] \in {".", ","} /\ DigitsAt(s, j + 1, 2)
             THEN <<SubSeq(s, i, j + 2)>> \o FindallMoneyFrom(s, j + 3)
             ELSE FindallMoneyFrom(s, i + 1)

RECURSIVE MaxOver(_, _)
\* the inner loop of detect_total: max_amt after the tokens ns, from max_amt = mx
MaxOver(ns, mx) ==
    IF ns = << >> THEN mx
    ELSE LET v == float(replace(Head(ns), <<",">>, <<".">>))
         IN  MaxOver(Tail(ns), IF v > mx THEN v ELSE mx)

RECURSIVE TotalLoop(_, _, _)
\* the outer loop of detect_total: <<max_amt, total_amt>> after the lines ls
TotalLoop(ls, max_amt, total_amt) ==
    IF ls = << >> THEN <<max_amt, total_amt>>
    ELSE LET ln      == Head(ls)
             numbers == FindallMoneyFrom(ln, 1)
             mx      == MaxOver(numbers, max_amt)
             tot     == IF Contains(upper(ln), <<"T","O","T","A","L">>) /\ numbers # << >>
                        THEN normalize_amount(numbers[Len(numbers)])
                        ELSE total_amt
         IN  TotalLoop(Tail(ls), mx, tot)

\* detect_total without the TOTAL label: the largest amount always wins
detect_total_maxonly(ls) ==
    LET r == TotalLoop(ls, 0, << >>)
    IN  IF r[1] > 0 THEN Format2f(r[1]) ELSE << >>

detect_total(ls) ==
    LET r == TotalLoop(ls, 0, << >>)
    IN  IF r[2] # << >> THEN r[2]
        ELSE IF r[1] > 0 THEN Format2f(r[1])
        ELSE << >>

RECURSIVE SkipSpaces(_, _)
\* the index just past the run of \s that starts at i
SkipSpaces(s, i) == IF i <= Len(s) /\ IsSpace(s[i]) THEN SkipSpaces(s, i + 1) ELSE i

\* where group 2 of (RUC\s*[:#]?\s*)?(\d{11}) starts when the pattern matches at i, else 0.
\* The classes \s, [:#] and \d are disjoint, so the greedy choices are the only ones.
RucGroupAt(s, i) ==
    LET a == SkipSpaces(s, i + 3)
        b == IF a <= Len(s) /\ s[a] \in {":", "#"} THEN a + 1 ELSE a
        c == SkipSpaces(s, b)
    IN  IF MatchAt(s, i, <<"R","U","C">>) /\ DigitsAt(s, c, 11) THEN c
        ELSE IF DigitsAt(s, i, 11) THEN i
        ELSE 0

\* m.group(2) of re.search over ln.upper(), << >> when there is no match
RucSearch(ln) ==
    LET s == upper(ln)
    IN  IF \E i \in 1..Len(s) : RucGroupAt(s, i) # 0
        THEN LET i == CHOOSE i \in 1..Len(s) :
                          RucGroupAt(s, i) # 0 /\ \A k \in 1..(i - 1) : RucGroupAt(s, k) = 0
                 g == RucGroupAt(s, i)
             IN  SubSeq(s, g, g + 10)
        ELSE << >>

RECURSIVE detect_ruc(_)
detect_ruc(ls) ==
    IF ls = << >> THEN << >>
    ELSE IF RucSearch(Head(ls)) # << >> THEN RucSearch(Head(ls))
    ELSE detect_ruc(Tail(ls))

\* the length of the match at i of: [prefix] [0-9]{3} - [0-9]{lo,hi}, 0 when there is none.
\* prefix is "FB" for [FB], "AZ" for [A-Z] and "" for no prefix character.
SeriesLenAt(s, i, prefix, lo, hi) ==
    LET p   == IF prefix = "" THEN 0 ELSE 1
        d   == i + p + 4
        run == DigitRunEnd(s, d) - d
        n   == IF run > hi THEN hi ELSE run
    IN  IF /\ i + p + 3 <= Len(s)
           /\ \/ prefix = ""
              \/ prefix = "FB" /\ s[i] \in {"F", "B"}
              \/ prefix = "AZ" /\ IsUpper(s[i])
           /\ DigitsAt(s, i + p, 3)
           /\ s[i + p + 3] = "-"
           /\ n >= lo
        THEN p + 4 + n
        ELSE 0

\* m.group(1) of re.search of that pattern in s, << >> when there is no match
SeriesSearch(s, prefix, lo, hi) ==
    IF \E i \in 1..Len(s) : SeriesLenAt(s, i, prefix, lo, hi) # 0
    THEN LET i == CHOOSE i \in 1..Len(s) :
                      /\ SeriesLenAt(s, i, prefix, lo, hi) # 0
                      /\ \A k \in 1..(i - 1) : SeriesLenAt(s, k, prefix, lo, hi) = 0
         IN  SubSeq(s, i, i + SeriesLenAt(s, i, prefix, lo, hi) - 1)
    ELSE << >>

RECURSIVE NumeroLettered(_)
\* the first loop of detect_numero: both lettered patterns on each line in turn
NumeroLettered(ls) ==
    IF ls = << >> THEN << >>
    ELSE LET m  == SeriesSearch(upper(Head(ls)), "FB", 5, 8)
             m2 == SeriesSearch(upper(Head(ls)), "AZ", 5, 10)
         IN  IF m # << >> THEN m
             ELSE IF m2 # << >> THEN m2
             ELSE NumeroLettered(Tail(ls))

RECURSIVE NumeroBare(_)
\* the second loop of detect_numero: the bare series
NumeroBare(ls) ==
    IF ls = << >> THEN << >>
    ELSE LET m == SeriesSearch(Head(ls), "", 5, 8)
         IN  IF m # << >> THEN m ELSE NumeroBare(Tail(ls))

detect_numero(ls) ==
    IF NumeroLettered(ls) # << >> THEN NumeroLettered(ls) ELSE NumeroBare(ls)

\* lines[:8]
VendorWindow == 8

\* re.search(r"SAC|SA|SRL|EIRL|S\.A\.|S\.A\.C", u) finds something
HasCompanySuffix(u) ==
    \/ Contains(u, <<"S","A","C">>)
    \/ Contains(u, <<"S","A">>)
    \/ Contains(u, <<"S","R","L">>)
    \/ Contains(u, <<"E","I","R","L">>)
    \/ Contains(u, <<"S",".","A",".">>)
    \/ Contains(u, <<"S",".","A",".","C">>)

RECURSIVE ProveedorBySuffix(_)
\* the first loop of detect_proveedor over the lines ls
ProveedorBySuffix(ls) ==
    IF ls = << >> THEN << >>
    ELSE LET t == strip(Head(ls))
         IN  IF Len(t) >= 3 /\ HasCompanySuffix(upper(t)) THEN t
             ELSE ProveedorBySuffix(Tail(ls))

RECURSIVE ProveedorByRuc(_, _)
\* the second loop of detect_proveedor from index i on (i counted from 1)
ProveedorByRuc(ls, i) ==
    IF i > Len(ls) THEN << >>
    ELSE IF Contains(upper(ls[i]), <<"R","U","C">>) /\ i > 1 /\ Len(strip(ls[i - 1])) > 3
         THEN strip(ls[i - 1])
    ELSE ProveedorByRuc(ls, i + 1)

\* detect_proveedor with the suffix rule over every line, not only lines[:8]
detect_proveedor_nowindow(ls) ==
    IF ProveedorBySuffix(ls) # << >> THEN ProveedorBySuffix(ls)
    ELSE ProveedorByRuc(ls, 1)

detect_proveedor(ls) ==
    LET first == SubSeq(ls, 1, IF Len(ls) < VendorWindow THEN Len(ls) ELSE VendorWindow)
    IN  IF ProveedorBySuffix(first) # << >> THEN ProveedorBySuffix(first)
        ELSE ProveedorByRuc(ls, 1)

\* any(k in joined for k in ks)
AnyIn(ks, joined) == \E k \in ks : Contains(joined, k)

detect_categoria(ls) ==
    LET joined == lower(join(<<" ">>, ls))
    IN  IF AnyIn({<<"r","e","s","t">>, <<"p","o","l","l","o">>, <<"p","i","z","z","a">>, <<"s","a","n","d","w","i","c","h">>, <<"b","e","m","b","o","s">>, <<"k","f","c">>,
                  <<"c","o","m","i","d","a">>, <<"m","a","r","k","e","t">>, <<"s","u","p","e","r">>}, joined)
        THEN <<"a","l","i","m","e","n","t","a","c","i","ó","n">>
        ELSE IF AnyIn({<<"u","b","e","r">>, <<"t","a","x","i">>, <<"b","u","s">>, <<"p","e","a","j","e">>, <<"g","a","s","o","l","i","n","a">>, <<"s","h","e","l","l">>,
                       <<"g","r","i","f">>}, joined)
        THEN <<"t","r","a","n","s","p","o","r","t","e">>
        ELSE IF AnyIn({<<"l","u","z">>, <<"a","g","u","a">>, <<"i","n","t","e","r","n","e","t">>, <<"c","l","a","r","o">>, <<"m","o","v","i","s","t","a","r">>,
                       <<"s","e","r","v","i","c","i","o">>}, joined)
        THEN <<"s","e","r","v","i","c","i","o","s">>
        ELSE IF AnyIn({<<"c","i","n","e">>, <<"n","e","t","f","l","i","x">>, <<"s","p","o","t","i","f","y">>, <<"p","u","b">>, <<"b","a","r">>}, joined)
        THEN <<"e","n","t","r","e","t","e","n","i","m","i","e","n","t","o">>
        ELSE IF AnyIn({<<"c","o","l","e","g","i","o">>, <<"u","n","i","v","e","r","s","i","d","a","d">>, <<"c","u","r","s","o">>, <<"l","i","b","r","o">>}, joined)
        THEN <<"e","d","u","c","a","c","i","ó","n">>
        ELSE IF AnyIn({<<"f","a","r","m","a","c","i","a">>, <<"c","l","i","n","i","c","a">>, <<"s","a","l","u","d">>, <<"m","e","d","i","c">>}, joined)
        THEN <<"s","a","l","u","d">>
        ELSE IF AnyIn({<<"a","l","q","u","i","l","e","r">>, <<"i","n","m","o","b","i","l","i","a","r","i","a">>, <<"h","o","g","a","r">>, <<"v","i","v","i","e","n","d","a">>}, joined)
        THEN <<"v","i","v","i","e","n","d","a">>
        ELSE IF AnyIn({<<"l","a","p","t","o","p">>, <<"p","c">>, <<"c","e","l","u","l","a","r">>, <<"i","p","h","o","n","e">>, <<"s","a","m","s","u","n","g">>,
                       <<"t","e","c","n","o","l","o","g">>}, joined)
        THEN <<"t","e","c","n","o","l","o","g","í","a">>
        ELSE << >>

----------------------------------------------------------------------------
(* JSON documents on standard output *)

JStr(s) == [type |-> "string", value |-> s]
JArr(a) == [type |-> "array", value |-> a]
JNull   == [type |-> "null", value |-> << >>]

\* a printed JSON object, and a printed text that is no JSON document
JsonDoc(obj) == [json |-> TRUE, obj |-> obj]
TextDoc      == [json |-> FALSE, obj |-> << >>]

\* the all-empty record both scripts spell out literally
DefaultRecord ==
    [tipo_documento   |-> JStr(<< >>),
     proveedor        |-> JStr(<< >>),
     ruc_proveedor    |-> JStr(<< >>),
     fecha_emision    |-> JStr(<< >>),
     monto_total      |-> JStr(<< >>),
     moneda           |-> JStr(<< >>),
     categoria_gasto  |-> JStr(<< >>),
     numero_documento |-> JStr(<< >>),
     items            |-> JArr(<< >>),
     observaciones    |-> JStr(<< >>)]

NoOcr == [outcome |-> "not_run", result |-> << >>]

----------------------------------------------------------------------------
(* extract_expense.py: ocr_with_rapidocr and main *)

OcrOutcomes == {"import_failed", "engine_raised", "no_result", "ok"}

\* what ocr_with_rapidocr returns when the engine behaves as o
ocr_with_rapidocr(o) ==
    IF o.outcome = "import_failed" THEN << >>
    ELSE IF o.outcome = "engine_raised" THEN << >>
    ELSE IF o.outcome = "no_result" THEN << >>
    ELSE o.result

\* the dict main builds from the cleaned lines
Assemble(ls) ==
    [tipo_documento   |-> JStr(detect_tipo(ls)),
     proveedor        |-> JStr(detect_proveedor(ls)),
     ruc_proveedor    |-> JStr(detect_ruc(ls)),
     fecha_emision    |-> JStr(detect_fecha(ls)),
     monto_total      |-> JStr(detect_total(ls)),
     moneda           |-> JStr(detect_moneda(ls)),
     categoria_gasto  |-> JStr(detect_categoria(ls)),
     numero_documento |-> JStr(detect_numero(ls)),
     items            |-> JArr(<< >>),
     observaciones    |-> JStr(<< >>),
     text             |-> JStr(join(<<" ","\n"," ">>, ls))]

MaxLines == 3
MaxTail == 2
MaxPad == 8

RECURSIVE SeqsUpTo(_, _)
\* the sequences over S of length at most n
SeqsUpTo(S, n) ==
    IF n = 0 THEN {<< >>}
    ELSE LET shorter == SeqsUpTo(S, n - 1)
         IN  shorter \cup {Append(q, x) : q \in shorter, x \in S}

RECURSIVE Repeat(_, _)
Repeat(x, n) == IF n = 0 THEN << >> ELSE <<x>> \o Repeat(x, n - 1)

BlankPool == {
    << >>,
    <<" ">>,   \* " "
    <<" ","\t"," ">>,   \* " \t "
    <<" "," ","T","O","T","A","L"," ","\t"," ","7",",","5","0"," "," ">> }   \* "  TOTAL \t 7,50  "

TotalPool == {
    <<"S","u","b","t","o","t","a","l"," ","3","0",".","0","0">>,   \* "Subtotal 30.00"
    <<"T","O","T","A","L"," ","2","5",".","5","0">>,   \* "TOTAL 25.50"
    <<"1","2",".","0","0">>,   \* "12.00"
    <<"0",".","0","0">>,   \* "0.00"
    <<"T","o","t","a","l"," ","a"," ","p","a","g","a","r">>,   \* "Total a pagar"
    <<"t","o","t","a","l"," ","S","/"," ","1",",","5","0"," ","2",".","2","5">>,   \* "total S/ 1,50 2.25"
    <<"1",".","2","3","4",",","5","6">> }   \* "1.234,56"

DatePool == {
    <<"F","e","c","h","a",":"," ","2","0","2","4","-","0","3","-","1","5"," ","g","r","a","c","i","a","s">>,   \* "Fecha: 2024-03-15 gracias"
    <<"1","5","/","0","3","/","2","0","2","4">>,   \* "15/03/2024"
    <<"3","1","-","1","2","-","2","0","9","9"," ","2","0","0","0","/","0","1","/","0","1">>,   \* "31-12-2099 2000/01/01"
    <<"2","0","2","4","-","1","3","-","0","1">>,   \* "2024-13-01"
    <<"1","9","9","9","-","0","5","-","0","5"," ","3","2","/","0","1","/","2","0","2","4">>,   \* "1999-05-05 32/01/2024"
    <<"2","0","2","4","/","0","2","/","3","1">>,   \* "2024/02/31"
    <<"s","i","n"," ","f","e","c","h","a">> }   \* "sin fecha"

RucPool == {
    <<"R","U","C",":"," ","2","0","1","2","3","4","5","6","7","8","9">>,   \* "RUC: 20123456789"
    <<"r","u","c"," ","#","1","0","9","8","7","6","5","4","3","2","1"," ","x">>,   \* "ruc #10987654321 x"
    <<"1","2","3","4","5","6","7","8","9","0","1">>,   \* "12345678901"
    <<"1","2","3","4","5","6","7","8","9","0","1","2">>,   \* "123456789012"
    <<"R","U","C"," ","1","2","3","4","5","6","7","8","9","0">>,   \* "RUC 1234567890"
    <<"T","e","l"," ","9","8","7","6","5","4">> }   \* "Tel 987654"

NumeroPool == {
    <<"F","0","0","1","-","0","0","0","0","1","2","3","4">>,   \* "F001-00001234"
    <<"X","1","2","3","-","0","0","0","0","0","5","5">>,   \* "X123-0000055"
    <<"1","2","3","-","0","0","0","5","5">>,   \* "123-00055"
    <<"b","0","0","2","-","1","2","3","4","5"," ","x">>,   \* "b002-12345 x"
    <<"x","1","2","3","-","0","0","0","0","0"," ","F","0","0","1","-","0","0","0","0","1">>,   \* "x123-00000 F001-00001"
    <<"0","0","1","-","1","2","3","4">>,   \* "001-1234"
    <<"N"," ","0","0","1","-","1","2","3","4","5","6","7","8","9">> }   \* "N 001-123456789"

VendorPool == {
    <<"A","C","M","E"," ","S","A","C">>,   \* "ACME SAC"
    <<"S","A">>,   \* "SA"
    <<"c","a","s","a">>,   \* "casa"
    <<"A","B","C">>,   \* "ABC"
    <<"A","B","C","D">>,   \* "ABCD"
    <<"R","U","C"," ","1">>,   \* "RUC 1"
    <<"B","o","d","e","g","a"," ","E","I","R","L"," ","r","u","c"," ","2">> }   \* "Bodega EIRL ruc 2"

\* a line without company suffix and without "RUC", too short to be a vendor
PadLine == <<"x","y">>

\* the line sets the OCR engine may return
OcrResults ==
    SeqsUpTo(BlankPool, MaxLines)
    \cup SeqsUpTo(TotalPool, MaxLines)
    \cup SeqsUpTo(DatePool, MaxLines)
    \cup SeqsUpTo(RucPool, MaxLines)
    \cup SeqsUpTo(NumeroPool, MaxLines)
    \cup {Repeat(PadLine, n) \o q : n \in 0..MaxPad, q \in SeqsUpTo(VendorPool, MaxTail)}

\* len(sys.argv) < 2: the default record, with text, and exit 0
EEUsage ==
    /\ script = "extract_expense"
    /\ pc = "start"
    /\ Len(argv) < 1
    /\ stdout' = Append(stdout, JsonDoc(DefaultRecord @@ [text |-> JStr(<< >>)]))
    /\ exit_code' = 0
    /\ pc' = "exited"
    /\ UNCHANGED <<script, argv, lines, raised, ocr, fault, txt, ret>>

\* lines = ocr_with_rapidocr(img_path)
EEOcr ==
    /\ script = "extract_expense"
    /\ pc = "start"
    /\ Len(argv) >= 1
    /\ \E o \in OcrOutcomes :
          \E r \in (IF o = "ok" THEN OcrResults ELSE {<< >>}) :
             /\ ocr' = [outcome |-> o, result |-> r]
             /\ lines' = ocr_with_rapidocr([outcome |-> o, result |-> r])
    /\ pc' = "clean"
    /\ UNCHANGED <<script, argv, stdout, exit_code, raised, fault, txt, ret>>

\* lines = clean_text(lines)
EEClean ==
    /\ script = "extract_expense"
    /\ pc = "clean"
    /\ lines' = clean_text(lines)
    /\ pc' = "detect"
    /\ UNCHANGED <<script, argv, stdout, exit_code, raised, ocr, fault, txt, ret>>

\* result = {...}; print(json.dumps(result)); sys.exit(0)
EEAssemble ==
    /\ script = "extract_expense"
    /\ pc = "detect"
    /\ stdout' = Append(stdout, JsonDoc(Assemble(lines)))
    /\ exit_code' = 0
    /\ pc' = "exited"
    /\ UNCHANGED <<script, argv, lines, raised, ocr, fault, txt, ret>>

----------------------------------------------------------------------------
(* llm_extract.py *)

\* the record of the except branches: the default record plus an error string
ErrorRecord(msg) == DefaultRecord @@ [error |-> JStr(msg)]

\* a response that fills every field
FullContent ==
    [tipo_documento   |-> JStr(<<"b","o","l","e","t","a">>),
     proveedor        |-> JStr(<<"A","C","M","E"," ","S","A","C">>),
     ruc_proveedor    |-> JStr(<<"2","0","1","2","3","4","5","6","7","8","9">>),
     fecha_emision    |-> JStr(<<"2","0","2","4","-","0","3","-","1","5">>),
     monto_total      |-> JStr(<<"2","5",".","5","0">>),
     moneda           |-> JStr(<<"P","E","N">>),
     categoria_gasto  |-> JStr(<<"o","t","r","o","s">>),
     numero_documento |-> JStr(<<"B","0","0","1","-","0","0","0","0","1","2","3","4">>),
     items            |-> JArr(<< >>),
     observaciones    |-> JStr(<< >>)]

\* the properties SCHEMA declares {"type": "null"} for
Nullable == {"ruc_proveedor", "categoria_gasto", "numero_documento", "items", "observaciones"}

\* message.content values: None, a text that is no JSON, and the objects SCHEMA admits
\* (each nullable property null or not)
Contents ==
    {[kind |-> "none", obj |-> << >>], [kind |-> "text", obj |-> << >>]}
    \cup {[kind |-> "object",
           obj  |-> [k \in DOMAIN FullContent |-> IF k \in N THEN JNull ELSE FullContent[k]]] :
          N \in SUBSET Nullable}

\* print(text) with text = content or "{}"
PrintedContent(c) ==
    IF c.kind = "none" THEN JsonDoc(<< >>)
    ELSE IF c.kind = "text" THEN TextDoc
    ELSE JsonDoc(c.obj)

\* from openai import OpenAI, with the except branch of the module
LLMImport ==
    /\ script = "llm_extract"
    /\ pc = "import"
    /\ \/ /\ pc' = "start"
          /\ UNCHANGED <<stdout, exit_code, fault>>
       \/ /\ fault' = "import"
          /\ stdout' = Append(stdout, JsonDoc(ErrorRecord(<<"o","p","e","n","a","i"," ","i","m","p","o","r","t"," ","f","a","i","l","e","d">>)))
          /\ exit_code' = 0
          /\ pc' = "exited"
    /\ UNCHANGED <<script, argv, lines, raised, ocr, txt, ret>>

\* len(sys.argv) < 2: the default record, and return
LLMUsage ==
    /\ script = "llm_extract"
    /\ pc = "start"
    /\ Len(argv) < 1
    /\ stdout' = Append(stdout, JsonDoc(DefaultRecord))
    /\ exit_code' = 0
    /\ pc' = "exited"
    /\ UNCHANGED <<script, argv, lines, raised, ocr, fault, txt, ret>>

\* with open(img_path, 'rb') as f: ... -- outside any try
LLMOpen ==
    /\ script = "llm_extract"
    /\ pc = "start"
    /\ Len(argv) >= 1
    /\ \/ /\ pc' = "client"
          /\ UNCHANGED <<exit_code, raised, fault>>
       \/ /\ fault' = "image"
          /\ raised' = "OSError"
          /\ exit_code' = 1
          /\ pc' = "exited"
    /\ UNCHANGED <<script, argv, lines, stdout, ocr, txt, ret>>

\* client = OpenAI(api_key=api_key) -- outside any try
LLMClient ==
    /\ script = "llm_extract"
    /\ pc = "client"
    /\ \/ /\ pc' = "call"
          /\ UNCHANGED <<exit_code, raised, fault>>
       \/ /\ fault' = "credentials"
          /\ raised' = "OpenAIError"
          /\ exit_code' = 1
          /\ pc' = "exited"
    /\ UNCHANGED <<script, argv, lines, stdout, ocr, txt, ret>>

CallFailures == {"auth", "network", "schema", "no_choices"}

\* the try block: create(...), print(text); the except branch prints the error record
LLMCall ==
    /\ script = "llm_extract"
    /\ pc = "call"
    /\ \/ \E c \in Contents :
             /\ stdout' = Append(stdout, PrintedContent(c))
             /\ fault' = IF c.kind = "text" THEN "malformed" ELSE "none"
       \/ \E f \in CallFailures :
             /\ stdout' = Append(stdout, JsonDoc(ErrorRecord(<<"l","l","m"," ","e","r","r","o","r">>)))
             /\ fault' = f
    /\ exit_code' = 0
    /\ pc' = "exited"
    /\ UNCHANGED <<script, argv, lines, raised, ocr, txt, ret>>

----------------------------------------------------------------------------
(* One invocation of either script *)

Init ==
    /\ script \in {"extract_expense", "llm_extract"}
    /\ argv \in {<< >>, <<"receipt.png">>}
    /\ pc = IF script = "llm_extract" THEN "import" ELSE "start"
    /\ lines = << >>
    /\ stdout = << >>
    /\ exit_code = -1
    /\ raised = "none"
    /\ ocr = NoOcr
    /\ fault = "none"
    /\ txt = << >>
    /\ ret = << >>

Next ==
    \/ EEUsage
    \/ EEOcr
    \/ EEClean
    \/ EEAssemble
    \/ LLMImport
    \/ LLMUsage
    \/ LLMOpen
    \/ LLMClient
    \/ LLMCall

Spec == Init /\ [][Next]_vars

----------------------------------------------------------------------------
(* normalize_amount applied to an argument of its own *)

MaxAmountLen == 3

AmountAlphabet == {"1", "0", ".", ",", " ", "$", "S", "/"}

RECURSIVE StringsOver(_, _)
\* the strings over alphabet A of length at most n
StringsOver(A, n) ==
    IF n = 0 THEN {<< >>}
    ELSE LET shorter == StringsOver(A, n - 1)
         IN  shorter \cup {Append(s, c) : s \in shorter, c \in A}

AmountSamples == {
    <<"S","/"," ","1",",","2","3","4",".","5","6">>,   \* "S/ 1,234.56"
    <<"U","S","$"," ","1","2",",","5">>,   \* "US$ 12,5"
    <<"$"," ","0","0","7",".","5","0"," ">>,   \* "$ 007.50 "
    <<"1",".","2","3","4">>,   \* "1.234"
    <<"T","O","T","A","L">>,   \* "TOTAL"
    <<"2","5",".","5","0">> }   \* "25.50"

AmountInputs == AmountSamples \cup StringsOver(AmountAlphabet, MaxAmountLen)

InitAmount ==
    /\ script = "normalize_amount"
    /\ argv = << >>
    /\ pc = "call"
    /\ lines = << >>
    /\ stdout = << >>
    /\ exit_code = -1
    /\ raised = "none"
    /\ ocr = NoOcr
    /\ fault = "none"
    /\ txt \in AmountInputs
    /\ ret = << >>

CallNormalizeAmount ==
    /\ script = "normalize_amount"
    /\ pc = "call"
    /\ ret' = normalize_amount(txt)
    /\ pc' = "returned"
    /\ UNCHANGED <<script, argv, lines, stdout, exit_code, raised, ocr, fault, txt>>

NextAmount == CallNormalizeAmount

SpecAmount == InitAmount /\ [][NextAmount]_vars

----------------------------------------------------------------------------
(* Properties *)

TenKeys == {"tipo_documento", "proveedor", "ruc_proveedor", "fecha_emision", "monto_total",
            "moneda", "categoria_gasto", "numero_documento", "items", "observaciones"}

\* extract_expense.main ran with an image path and has exited
EEDone == script = "extract_expense" /\ pc = "exited" /\ Len(argv) >= 1

\* llm_extract ran with an image path and has exited
LLMDone == script = "llm_extract" /\ pc = "exited" /\ Len(argv) >= 1

\* the string value of field k of the record extract_expense printed
Field(k) == stdout[1].obj[k].value

\* the smallest element of a non-empty set of integers
Least(S) == CHOOSE x \in S : \A y \in S : x <= y

\* the largest element of a non-empty set of integers
Greatest(S) == CHOOSE x \in S : \A y \in S : x >= y

\* the monetary tokens of a line: digits, '.' or ',', two digits
MoneyTokens(ln) == FindallMoneyFrom(ln, 1)

\* the value of a monetary token in hundredths, comma read as decimal point
TokenValue(tok) == float([i \in 1..Len(tok) |-> IF tok[i] = "," THEN "." ELSE tok[i]])

\* the lines labelled TOTAL that carry a monetary token
LabelledLines(ls) ==
    {i \in 1..Len(ls) : Contains(upper(ls[i]), <<"T","O","T","A","L">>) /\ MoneyTokens(ls[i]) # << >>}

\* the values of all monetary tokens of all lines
AllTokenValues(ls) ==
    UNION {{TokenValue(MoneyTokens(ls[i])[j]) : j \in 1..Len(MoneyTokens(ls[i]))} :
           i \in 1..Len(ls)}

(* C1: in llm_extract.main invoked with an image path, every failure on the way to
   the result (unreadable image, missing credentials at client construction, network
   error, malformed response) ends with the all-empty default record carrying an
   error field on standard output, and no exception escapes main. *)
C1_FailureYieldsErrorRecord ==
    (LLMDone /\ fault # "none") =>
        /\ raised = "none"
        /\ Len(stdout) = 1
        /\ stdout[1].json
        /\ DOMAIN stdout[1].obj = TenKeys \cup {"error"}
        /\ \A k \in TenKeys : stdout[1].obj[k] = DefaultRecord[k]
        /\ stdout[1].obj["error"].type = "string"

(* C2: every top-level invocation of either script, with zero or one argument,
   ends with exit code 0 after printing one JSON record that has all ten keys,
   none missing and none null. *)
C2_FullRecordExitZero ==
    (pc = "exited") =>
        /\ exit_code = 0
        /\ Len(stdout) = 1
        /\ stdout[1].json
        /\ TenKeys \subseteq DOMAIN stdout[1].obj
        /\ \A k \in TenKeys : stdout[1].obj[k].type # "null"

\* every character of ln is whitespace
IsBlank(ln) == \A j \in 1..Len(ln) : IsSpace(ln[j])

\* the OCR step yields no lines: engine not importable, engine raises, no result,
\* or every returned line is blank
OcrYieldsNothing ==
    \/ ocr.outcome \in {"import_failed", "engine_raised", "no_result"}
    \/ ocr.outcome = "ok" /\ \A i \in 1..Len(ocr.result) : IsBlank(ocr.result[i])

(* C3: in the heuristic pipeline, whenever the OCR step yields no lines, no exception
   surfaces and the printed record has every string field empty, items the empty
   sequence and text the empty string. *)
C3_EmptyOcrEmptyRecord ==
    (EEDone /\ OcrYieldsNothing) =>
        /\ raised = "none"
        /\ exit_code = 0
        /\ stdout = <<JsonDoc(DefaultRecord @@ [text |-> JStr(<< >>)])>>

C3_Witness ==
    /\ EEDone
    /\ ocr.outcome = "ok"
    /\ Len(ocr.result) = 2
    /\ \A i \in 1..Len(ocr.result) : IsBlank(ocr.result[i]) /\ ocr.result[i] # << >>
    /\ stdout = <<JsonDoc(DefaultRecord @@ [text |-> JStr(<< >>)])>>

(* C4: detect_total prefers the TOTAL label over magnitude: when some line whose
   uppercased form contains TOTAL carries a monetary token, the result is the
   two-decimal rendering of the last monetary token of a TOTAL-labelled line (the last
   such line), whatever larger token stands on a line without the label. *)
C4_TotalLabelWins ==
    (EEDone /\ LabelledLines(lines) # {}) =>
        LET toks == MoneyTokens(lines[Greatest(LabelledLines(lines))])
        IN  Field("monto_total") = Format2f(TokenValue(toks[Len(toks)]))

C4_Witness ==
    /\ EEDone
    /\ lines = <<<<"S","u","b","t","o","t","a","l"," ","3","0",".","0","0">>, <<"T","O","T","A","L"," ","2","5",".","5","0">>>>
    /\ Field("monto_total") = <<"2","5",".","5","0">>

\* txt without spaces and currency markers, commas turned into dots
Cleaned(t) ==
    LET nosp == SelectSeq(t, LAMBDA c : c # " ")
        nomk == replace(replace(replace(nosp, <<"S","/">>, << >>), <<"U","S","$">>, << >>), <<"$">>, << >>)
    IN  [i \in 1..Len(nomk) |-> IF nomk[i] = "," THEN "." ELSE nomk[i]]

\* the two-decimal rendering of the last digits[.digits{0,2}] run of the cleaned text
LastRunRendered(t) ==
    LET runs == FindallAmountFrom(Cleaned(t), 1)
    IN  IF runs = << >> THEN << >> ELSE Format2f(float(runs[Len(runs)]))

(* C5 as stated: normalize_amount returns the two-decimal rendering of the last
   digits[.digits{0,2}] run of the cleaned string, and "S/ 1,234.56" yields "34.56". *)
C5_AsStated ==
    (script = "normalize_amount" /\ pc = "returned") =>
        /\ ret = LastRunRendered(txt)
        /\ txt = <<"S","/"," ","1",",","2","3","4",".","5","6">> => ret = <<"3","4",".","5","6">>

(* C5, amended: normalize_amount removes spaces and the markers "S/", "US$", "$",
   replaces every comma by a dot, and returns the two-decimal rendering of the last
   digits[.digits{0,2}] run of the cleaned string (empty when there is none); the
   input "S/ 1,234.56", cleaned to "1.234.56", has the runs "1.23" and "4.56" and
   yields "4.56". *)
C5_NormalizeAmount ==
    (script = "normalize_amount" /\ pc = "returned") =>
        /\ ret = LastRunRendered(txt)
        /\ txt = <<"S","/"," ","1",",","2","3","4",".","5","6">> => ret = <<"4",".","5","6">>

C5_Witness ==
    /\ script = "normalize_amount"
    /\ pc = "returned"
    /\ txt = <<"S","/"," ","1",",","2","3","4",".","5","6">>
    /\ ret = <<"4",".","5","6">>

\* the starts of the maximal digit runs of s that are exactly n digits long
ExactRuns(s, n) ==
    {i \in 1..Len(s) : /\ IsDigit(s[i])
                       /\ i = 1 \/ ~IsDigit(s[i - 1])
                       /\ DigitRunEnd(s, i) = i + n}

\* the lines that have a run of exactly 11 digits
RucLines(ls) == {i \in 1..Len(ls) : ExactRuns(ls[i], 11) # {}}

(* C6: detect_ruc returns a non-empty value only for a run of exactly 11 digits: the
   11-digit group of the first line that has such a run; a line whose digit runs are
   all shorter or longer than 11 digits contributes no match; empty with no match. *)
C6_RucExactlyEleven ==
    EEDone =>
        IF RucLines(lines) = {} THEN Field("ruc_proveedor") = << >>
        ELSE LET ln == lines[Least(RucLines(lines))]
                 i  == Least(ExactRuns(ln, 11))
             IN  Field("ruc_proveedor") = SubSeq(ln, i, i + 10)

\* the lines with a tier-1 match: [FB] + 3 digits + '-' + 5 to 8 digits
Tier1Lines(ls) == {i \in 1..Len(ls) : SeriesSearch(upper(ls[i]), "FB", 5, 8) # << >>}

(* C7: detect_numero applies its tiers strictly in tier order over the whole line
   set: whenever any line has a tier-1 match, the result is the tier-1 match of the
   first such line, even if an earlier line has only a tier-2 match. *)
C7_TierOneFirst ==
    (EEDone /\ Tier1Lines(lines) # {}) =>
        Field("numero_documento") =
            SeriesSearch(upper(lines[Least(Tier1Lines(lines))]), "FB", 5, 8)

(* C8: detect_total fallback: when no TOTAL-labelled line yields a candidate, then
   (i) if a monetary token occurs in any line the result is the maximum token value
   with exactly two decimals, "0.00" when every token is zero, and (ii) the result
   is empty only if no monetary token occurs anywhere. *)
C8_FallbackMaximum ==
    (EEDone /\ LabelledLines(lines) = {}) =>
        IF AllTokenValues(lines) # {}
        THEN Field("monto_total") = Format2f(Greatest(AllTokenValues(lines)))
        ELSE Field("monto_total") = << >>

\* the lines in which one of the two date patterns matches
DateLines(ls) ==
    {i \in 1..Len(ls) : \E p \in 1..Len(ls[i]) : PatternYMDAt(ls[i], p) \/ PatternDMYAt(ls[i], p)}

\* d is "YYYY-MM-DD" with YYYY in 2000..2099, MM in 01..12, DD in 01..31
IsIsoDate(d) ==
    /\ Len(d) = 10
    /\ d[5] = "-" /\ d[8] = "-"
    /\ \A i \in {1, 2, 3, 4, 6, 7, 9, 10} : IsDigit(d[i])
    /\ IntOf(SubSeq(d, 1, 4)) \in 2000..2099
    /\ IntOf(SubSeq(d, 6, 7)) \in 1..12
    /\ IntOf(SubSeq(d, 9, 10)) \in 1..31

\* the date the first match of line ln stands for: pattern A if it matches anywhere
\* in the line, else pattern B with the year moved to the front
DateOfLine(ln) ==
    LET A == {p \in 1..Len(ln) : PatternYMDAt(ln, p)}
        B == {p \in 1..Len(ln) : PatternDMYAt(ln, p)}
    IN  IF A # {}
        THEN LET p == Least(A)
             IN  SubSeq(ln, p, p + 3) \o <<"-">> \o SubSeq(ln, p + 5, p + 6) \o <<"-">>
                     \o SubSeq(ln, p + 8, p + 9)
        ELSE LET p == Least(B)
             IN  SubSeq(ln, p + 6, p + 9) \o <<"-">> \o SubSeq(ln, p + 3, p + 4) \o <<"-">>
                     \o SubSeq(ln, p, p + 1)

(* C9: detect_fecha returns the date of the first hit in scan order (lines in order,
   within a line pattern A before pattern B) and nothing after that hit influences
   the result; the result is empty when no line matches and otherwise "YYYY-MM-DD"
   with YYYY in 2000..2099, MM in 01..12, DD in 01..31, pattern-B matches reordered
   year first. *)
C9_FirstDateHit ==
    EEDone =>
        IF DateLines(lines) = {} THEN Field("fecha_emision") = << >>
        ELSE /\ Field("fecha_emision") = DateOfLine(lines[Least(DateLines(lines))])
             /\ IsIsoDate(Field("fecha_emision"))

C9_Witness ==
    /\ EEDone
    /\ lines = <<<<"s","i","n"," ","f","e","c","h","a">>, <<"3","1","-","1","2","-","2","0","9","9"," ","2","0","0","0","/","0","1","/","0","1">>>>
    /\ Field("fecha_emision") = <<"2","0","0","0","-","0","1","-","0","1">>

CompanySuffixes == {<<"S","A","C">>, <<"S","A">>, <<"S","R","L">>, <<"E","I","R","L">>, <<"S",".","A",".">>, <<"S",".","A",".","C">>}

\* the lines among the first 8 of stripped length >= 3 that contain a company suffix
SuffixLines(ls) ==
    {i \in 1..Len(ls) : /\ i <= 8
                        /\ Len(strip(ls[i])) >= 3
                        /\ \E m \in CompanySuffixes : Contains(upper(ls[i]), m)}

\* the lines, not the first one, that contain RUC and follow a line of stripped length > 3
RucFollowers(ls) ==
    {i \in 2..Len(ls) : Contains(upper(ls[i]), <<"R","U","C">>) /\ Len(strip(ls[i - 1])) > 3}

(* C10: detect_proveedor is a strict two-tier choice: the first of the first 8 lines
   with stripped length >= 3 and a company suffix, lines beyond the 8th and the RUC
   rule not consulted; otherwise the line before a line containing RUC at index
   i > 0 when that line has stripped length > 3; otherwise empty.  A line containing
   RUC at index 0 never produces a vendor. *)
C10_VendorTwoTier ==
    EEDone =>
        IF SuffixLines(lines) # {}
        THEN Field("proveedor") = strip(lines[Least(SuffixLines(lines))])
        ELSE IF RucFollowers(lines) # {}
        THEN Field("proveedor") = strip(lines[Least(RucFollowers(lines)) - 1])
        ELSE Field("proveedor") = << >>

C10_Witness ==
    /\ EEDone
    /\ Len(lines) = 9
    /\ lines[9] = <<"A","C","M","E"," ","S","A","C">>
    /\ SuffixLines(lines) = {}
    /\ Field("proveedor") = << >>

====
